---- MODULE Spec2Model ----
(***************************************************************************)
(* Model of balance_updater.py: BalanceUpdater.run() loads the team ids,   *)
(* fetches the league board page by page, groups the transactions by user  *)
(* and saves the grouped result as JSON.                                   *)
(*                                                                         *)
(* Two specifications:                                                     *)
(*   Spec       one execution of run() against a remote board;             *)
(*   SpecGroup  _group_transactions applied repeatedly to given arguments. *)
(***************************************************************************)
EXTENDS Integers, Sequences, FiniteSets, TLC

VARIABLES
    pc,               \* position of run(): "load", "fetch", "group", "save", "done"; "unit" in SpecGroup
    outcome,          \* "running", "saved", "aborted" (run returned early or reported an error), "raised"
    input_file,       \* what is at self.input_file: [kind, teams]
    server,           \* the remote board: [mode, board, overlap]
    team_ids,         \* run(): team_ids
    offset,           \* _fetch_all_transactions: offset
    all_transactions, \* _fetch_all_transactions: all_transactions
    requests,         \* log of the GET requests issued: <<[offset, limit, status]>>
    pages,            \* log of the data pages received, in order
    fetch_returned,   \* "pending", "list", "None", "raised"
    transactions,     \* run(): transactions (meaningful once fetch_returned = "list")
    grouped,          \* run(): grouped_transactions
    group_calls,      \* number of calls of _group_transactions
    sink,             \* what is at self.output_file: [state, data]
    sink_writes,      \* number of times output_file was opened for writing
    results,          \* SpecGroup: the value returned by each pass
    given             \* SpecGroup: the arguments as first given

vars == <<pc, outcome, input_file, server, team_ids, offset, all_transactions,
          requests, pages, fetch_returned, transactions, grouped, group_calls,
          sink, sink_writes, results, given>>

(***************************************************************************)
(* Bounds                                                                  *)
(***************************************************************************)
MaxId == 2          \* team ids are 1..MaxId; user ids are 1..MaxId+1
MaxTeams == 2       \* length of the team list in the input file
MaxFullPages == 1   \* the board holds up to MaxFullPages full pages plus a remainder
MaxTx == 2          \* SpecGroup: length of the transaction list
MaxPasses == 2      \* SpecGroup: number of grouping passes

limit == 100   \* "limit = 100" in _fetch_all_transactions

\* Requests a run may issue in the model; enough for every finite board.
MaxRequests == MaxFullPages + 3

(***************************************************************************)
(* Data: JSON values as Python sees them                                   *)
(***************************************************************************)
\* dict.get(key) gives the value or None.
NoneStr == [none |-> TRUE, val |-> ""]
Str(s) == [none |-> FALSE, val |-> s]
NoneInt == [none |-> TRUE, val |-> 0]
Int_(n) == [none |-> FALSE, val |-> n]

\* The "user" member of a transaction: null/absent, or an object with some keys.
NullUser == [none |-> TRUE, keys |-> {}, id |-> 0]
EmptyUser == [none |-> FALSE, keys |-> {}, id |-> 0]
NamedUser == [none |-> FALSE, keys |-> {"name"}, id |-> 0]
IdUser(i) == [none |-> FALSE, keys |-> {"id", "name"}, id |-> i]

allowed_types == {"transfer", "market", "clauseIncrement"}

TeamIds == 1..MaxId
UserIds == 1..(MaxId + 1)

TxTypeSeq == <<Str("market"), Str("clauseIncrement"), Str("ignored"), NoneStr, Str("transfer")>>
UserSeq == <<IdUser(1), NullUser, EmptyUser>> \o [i \in 1..MaxId |-> IdUser(i + 1)] \o <<NamedUser>>

Tx(t, u, c) == [type |-> t, user |-> u, content |-> c]

Range(s) == {s[i] : i \in DOMAIN s}

\* Well-formed transaction records (content stands for the members the program does not read).
TxRecords == {Tx(t, u, 0) : t \in Range(TxTypeSeq), u \in Range(UserSeq)}

SeqsUpTo(S, n) == UNION {[1..k -> S] : k \in 0..n}

\* The n-th record of the remote board: every type and user shape occurs, each record distinct.
BoardRecord(n) ==
    Tx(TxTypeSeq[((n - 1) % Len(TxTypeSeq)) + 1], UserSeq[((n - 1) % Len(UserSeq)) + 1], n)

Board(n) == [i \in 1..n |-> BoardRecord(i)]

BoardSizes == {p * limit + d : p \in 0..MaxFullPages, d \in {0, 1, 2, limit - 1}}

Min(a, b) == IF a < b THEN a ELSE b
Max(a, b) == IF a > b THEN a ELSE b

(***************************************************************************)
(* The remote endpoint                                                     *)
(***************************************************************************)
\* The data of a successful response to GET ?offset=&limit=.
\* "slices": a finite board served by offset; with overlap > 0 records were
\* inserted at its head after the first request, so later pages start earlier.
\* "endless": a full page at every offset.
ServerPage(srv, off, lim) ==
    IF srv.mode = "endless"
    THEN [i \in 1..lim |-> BoardRecord(off + i)]
    ELSE LET start == IF off > 0 THEN Max(off - srv.overlap, 0) ELSE 0
         IN  SubSeq(srv.board, start + 1, Min(start + lim, Len(srv.board)))

Statuses == {"ok", "http_error", "network_error", "bad_body"}

(***************************************************************************)
(* _load_team_ids                                                          *)
(***************************************************************************)
InputKinds == {"missing", "invalid_json", "malformed", "empty_object", "array"}

InputFiles ==
    {[kind |-> k, teams |-> <<>>] : k \in InputKinds \ {"array"}}
    \cup {[kind |-> "array", teams |-> t] : t \in SeqsUpTo(TeamIds, MaxTeams)}

\* Variant: a default team instead of the empty set when the file cannot be loaded.
LoadTeamIds_Fallback(file) ==
    IF file.kind = "array" THEN {file.teams[i] : i \in DOMAIN file.teams} ELSE {1}

\* The set _load_team_ids returns; "malformed" raises instead (see LoadRaises).
LoadTeamIds(file) ==
    CASE file.kind = "missing" -> {}
      [] file.kind = "invalid_json" -> {}
      [] file.kind = "empty_object" -> {}
      [] OTHER -> {file.teams[i] : i \in DOMAIN file.teams}

\* Valid JSON that is not an array of objects with an id: team['id'] raises
\* TypeError or KeyError, which _load_team_ids does not catch.
LoadRaises(file) == file.kind = "malformed"

\* Variant: run() without the check of team_ids.
NoTeams_Never(ids) == FALSE

\* run(): "if not team_ids: return"
NoTeams(ids) == ids = {}

(***************************************************************************)
(* _group_transactions                                                     *)
(***************************************************************************)
\* tx.get('type'), tx.get('user'), user_info.get('id')
GetType(tx) == tx.type
GetUser(tx) == tx.user
GetId(user_info) == IF "id" \in user_info.keys THEN Int_(user_info.id) ELSE NoneInt

\* Truth value of a dict-or-None: None and {} are false.
Truthy(user_info) == ~user_info.none /\ user_info.keys # {}

InAllowed(tx_type) == ~tx_type.none /\ tx_type.val \in allowed_types

InDict(key, d) == ~key.none /\ key.val \in DOMAIN d

\* Variant: grouped_data.setdefault(user_id, []).append(tx), a key per user id seen.
GroupOne_SetDefault(grouped_data, tx) ==
    IF Truthy(GetUser(tx)) /\ InAllowed(GetType(tx)) /\ ~GetId(GetUser(tx)).none
    THEN LET k == GetId(GetUser(tx)).val
         IN  [j \in DOMAIN grouped_data \cup {k} |->
                 IF j = k
                 THEN (IF j \in DOMAIN grouped_data THEN Append(grouped_data[j], tx) ELSE <<tx>>)
                 ELSE grouped_data[j]]
    ELSE grouped_data

\* Variant: no test of tx_type.
GroupOne_AnyType(grouped_data, tx) ==
    IF Truthy(GetUser(tx)) /\ InDict(GetId(GetUser(tx)), grouped_data)
    THEN [grouped_data EXCEPT ![GetId(GetUser(tx)).val] = Append(@, tx)]
    ELSE grouped_data

\* Variant: insert(0, tx) instead of append(tx).
GroupOne_Prepend(grouped_data, tx) ==
    IF Truthy(GetUser(tx)) /\ InAllowed(GetType(tx)) /\ InDict(GetId(GetUser(tx)), grouped_data)
    THEN [grouped_data EXCEPT ![GetId(GetUser(tx)).val] = <<tx>> \o @]
    ELSE grouped_data

\* One iteration of "for tx in transactions".
GroupOne(grouped_data, tx) ==
    IF Truthy(GetUser(tx)) /\ InAllowed(GetType(tx))
    THEN IF InDict(GetId(GetUser(tx)), grouped_data)
         THEN [grouped_data EXCEPT ![GetId(GetUser(tx)).val] = Append(@, tx)]
         ELSE grouped_data
    ELSE grouped_data

\* Sequencing: the value of rest, once first has been computed (TLC evaluates
\* definitions on demand; a loop is computed iteration by iteration).
Then(first, rest) == IF first = first THEN rest ELSE rest

\* "for tx in transactions": iterations lo..hi in order, as the iterations lo..mid
\* followed by the iterations mid+1..hi (the recursion stays shallow on long lists).
RECURSIVE GroupLoop(_, _, _, _)
GroupLoop(grouped_data, txs, lo, hi) ==
    IF lo > hi THEN grouped_data
    ELSE IF lo = hi THEN GroupOne(grouped_data, txs[lo])
    ELSE LET mid == (lo + hi) \div 2
             first == GroupLoop(grouped_data, txs, lo, mid)
         IN  Then(first, GroupLoop(first, txs, mid + 1, hi))

\* Variant: the loop consumes the list (while transactions: tx = transactions.pop(0)).
GroupTransactions_Drain(txs, ids) ==
    [grouped_data |-> GroupLoop([k \in ids |-> <<>>], txs, 1, Len(txs)),
     transactions |-> <<>>,
     team_ids |-> ids]

\* The call _group_transactions(transactions, team_ids): the value returned and
\* the two arguments (passed by reference) as the call leaves them.
GroupTransactions(txs, ids) ==
    [grouped_data |-> GroupLoop([k \in ids |-> <<>>], txs, 1, Len(txs)),
     transactions |-> txs,
     team_ids |-> ids]

(***************************************************************************)
(* _save_results                                                           *)
(***************************************************************************)
\* json.dump turns the integer keys into strings.
JsonDump(data) ==
    [s \in {ToString(k) : k \in DOMAIN data} |->
        data[CHOOSE k \in DOMAIN data : ToString(k) = s]]

PriorContent == [state |-> "prior", data |-> [s \in {"old"} |-> <<>>]]

\* What a failed dump can leave in the file: opened with 'w' (truncated), then
\* some part of the text written.
PartialDumps(data) ==
    {[s \in K |-> JsonDump(data)[s]] : K \in (SUBSET DOMAIN JsonDump(data)) \ {DOMAIN JsonDump(data)}}

(***************************************************************************)
(* run()                                                                   *)
(***************************************************************************)
Init ==
    /\ pc = "load"
    /\ outcome = "running"
    /\ input_file \in InputFiles
    /\ server \in {[mode |-> "slices", board |-> Board(n), overlap |-> o] :
                      n \in BoardSizes, o \in {0, 1}}
                  \cup {[mode |-> "endless", board |-> <<>>, overlap |-> 0]}
    /\ team_ids = {}
    /\ offset = 0
    /\ all_transactions = <<>>
    /\ requests = <<>>
    /\ pages = <<>>
    /\ fetch_returned = "pending"
    /\ transactions = <<>>
    /\ grouped = <<>>
    /\ group_calls = 0
    /\ sink = PriorContent
    /\ sink_writes = 0
    /\ results = <<>>
    /\ given = [transactions |-> <<>>, team_ids |-> {}]

\* team_ids = self._load_team_ids(); if not team_ids: return
Load ==
    /\ pc = "load"
    /\ IF LoadRaises(input_file)
       THEN /\ pc' = "done"
            /\ outcome' = "raised"
            /\ UNCHANGED team_ids
       ELSE /\ team_ids' = LoadTeamIds(input_file)
            /\ IF NoTeams(LoadTeamIds(input_file))
               THEN pc' = "done" /\ outcome' = "aborted"
               ELSE pc' = "fetch" /\ UNCHANGED outcome
    /\ UNCHANGED <<input_file, server, offset, all_transactions, requests, pages,
                   fetch_returned, transactions, grouped, group_calls, sink,
                   sink_writes, results, given>>

\* Variant: len(data) <= limit.
LastPage_AtMost(data) == Len(data) <= limit

\* "if len(data) < limit: break"
LastPage(data) == Len(data) < limit

\* Variant: the next page starts one record too far.
NextOffset_PlusOne(off) == off + limit + 1

\* "offset += limit"
NextOffset(off) == off + limit

\* The loop ends by break: fetch returns the list and run() goes on to group it.
FetchReturnsList(list) ==
    /\ fetch_returned' = "list"
    /\ transactions' = list
    /\ pc' = "group"
    /\ UNCHANGED <<offset, outcome>>

\* Variant: the except clause leaves the loop with break and the pages so far are returned.
FetchReturnsNone_Break ==
    /\ fetch_returned' = "list"
    /\ transactions' = all_transactions
    /\ pc' = "group"
    /\ UNCHANGED <<all_transactions, offset, outcome>>

\* except RequestException: return None; run(): if transactions is None: return
FetchReturnsNone ==
    /\ fetch_returned' = "None"
    /\ all_transactions' = <<>>
    /\ pc' = "done"
    /\ outcome' = "aborted"
    /\ UNCHANGED <<offset, transactions>>

\* An exception that is no RequestException leaves the loop and run().
FetchRaises ==
    /\ fetch_returned' = "raised"
    /\ all_transactions' = <<>>
    /\ pc' = "done"
    /\ outcome' = "raised"
    /\ UNCHANGED <<offset, transactions>>

\* One iteration of "while True" with a successful response.
FetchPageOk ==
    /\ pc = "fetch"
    /\ Len(requests) < MaxRequests
    /\ LET data == ServerPage(server, offset, limit)
       IN  /\ requests' = Append(requests, [offset |-> offset, limit |-> limit, status |-> "ok"])
           /\ pages' = Append(pages, data)
           /\ IF data = <<>>
              THEN /\ UNCHANGED all_transactions
                   /\ FetchReturnsList(all_transactions)
              ELSE /\ all_transactions' = all_transactions \o data
                   /\ IF LastPage(data)
                      THEN FetchReturnsList(all_transactions \o data)
                      ELSE /\ offset' = NextOffset(offset)
                           /\ UNCHANGED <<fetch_returned, transactions, pc, outcome>>
    /\ UNCHANGED <<input_file, server, team_ids, grouped, group_calls, sink,
                   sink_writes, results, given>>

\* One iteration in which the request fails: a 4xx/5xx status or a network
\* failure is a RequestException; a body that is not JSON raises an exception
\* that is a RequestException in some versions of requests and a plain
\* ValueError in others.
FetchPageFails ==
    /\ pc = "fetch"
    /\ Len(requests) < MaxRequests
    /\ \E st \in Statuses \ {"ok"} :
          /\ requests' = Append(requests, [offset |-> offset, limit |-> limit, status |-> st])
          /\ \/ FetchReturnsNone
             \/ st = "bad_body" /\ FetchRaises
    /\ UNCHANGED <<input_file, server, team_ids, pages, grouped, group_calls, sink,
                   sink_writes, results, given>>

\* grouped_transactions = self._group_transactions(transactions, team_ids)
Group ==
    /\ pc = "group"
    /\ LET call == GroupTransactions(transactions, team_ids)
       IN  /\ grouped' = call.grouped_data
           /\ transactions' = call.transactions
           /\ team_ids' = call.team_ids
    /\ group_calls' = group_calls + 1
    /\ pc' = "save"
    /\ UNCHANGED <<outcome, input_file, server, offset, all_transactions, requests,
                   pages, fetch_returned, sink, sink_writes, results, given>>

\* self._save_results(grouped_transactions): the file is written whole
SaveOk ==
    /\ pc = "save"
    /\ sink' = [state |-> "complete", data |-> JsonDump(grouped)]
    /\ sink_writes' = sink_writes + 1
    /\ outcome' = "saved"
    /\ pc' = "done"
    /\ UNCHANGED <<input_file, server, team_ids, offset, all_transactions, requests,
                   pages, fetch_returned, transactions, grouped, group_calls,
                   results, given>>

\* open(output_file, 'w') raises IOError: nothing is touched
SaveOpenFails ==
    /\ pc = "save"
    /\ outcome' = "aborted"
    /\ pc' = "done"
    /\ UNCHANGED <<input_file, server, team_ids, offset, all_transactions, requests,
                   pages, fetch_returned, transactions, grouped, group_calls,
                   sink, sink_writes, results, given>>

\* open succeeds (the file is truncated) and json.dump raises IOError part way
SaveDumpFails ==
    /\ pc = "save"
    /\ \E part \in PartialDumps(grouped) :
          sink' = [state |-> "partial", data |-> part]
    /\ sink_writes' = sink_writes + 1
    /\ outcome' = "aborted"
    /\ pc' = "done"
    /\ UNCHANGED <<input_file, server, team_ids, offset, all_transactions, requests,
                   pages, fetch_returned, transactions, grouped, group_calls,
                   results, given>>

Next ==
    \/ Load
    \/ FetchPageOk
    \/ FetchPageFails
    \/ Group
    \/ SaveOk
    \/ SaveOpenFails
    \/ SaveDumpFails

Spec == Init /\ [][Next]_vars

(***************************************************************************)
(* _group_transactions on its own                                          *)
(***************************************************************************)
InitGroup ==
    /\ pc = "unit"
    /\ outcome = "running"
    /\ input_file = [kind |-> "array", teams |-> <<>>]
    /\ server = [mode |-> "slices", board |-> <<>>, overlap |-> 0]
    /\ team_ids \in (SUBSET TeamIds) \ {{}}
    /\ offset = 0
    /\ all_transactions = <<>>
    /\ requests = <<>>
    /\ pages = <<>>
    /\ fetch_returned = "list"
    /\ transactions \in SeqsUpTo(TxRecords, MaxTx)
    /\ grouped = <<>>
    /\ group_calls = 0
    /\ sink = PriorContent
    /\ sink_writes = 0
    /\ results = <<>>
    /\ given = [transactions |-> transactions, team_ids |-> team_ids]

GroupPass ==
    /\ pc = "unit"
    /\ Len(results) < MaxPasses
    /\ LET call == GroupTransactions(transactions, team_ids)
       IN  /\ results' = Append(results, call.grouped_data)
           /\ transactions' = call.transactions
           /\ team_ids' = call.team_ids
    /\ group_calls' = group_calls + 1
    /\ UNCHANGED <<pc, outcome, input_file, server, offset, all_transactions, requests,
                   pages, fetch_returned, grouped, sink, sink_writes, given>>

NextGroup == GroupPass

SpecGroup == InitGroup /\ [][NextGroup]_vars

(***************************************************************************)
(* Properties                                                              *)
(***************************************************************************)
\* The records received, in arrival order: page order, then order within the page.
RECURSIVE Flatten(_)
Flatten(ps) == IF ps = <<>> THEN <<>> ELSE Flatten(SubSeq(ps, 1, Len(ps) - 1)) \o ps[Len(ps)]

RECURSIVE SumLen(_)
SumLen(ps) == IF ps = <<>> THEN 0 ELSE SumLen(SubSeq(ps, 1, Len(ps) - 1)) + Len(ps[Len(ps)])

\* tx has an allowed type and user.id = k.
MatchesKey(tx, k) ==
    /\ ~tx.type.none
    /\ tx.type.val \in {"transfer", "market", "clauseIncrement"}
    /\ ~tx.user.none
    /\ "id" \in tx.user.keys
    /\ tx.user.id = k

InSomeBucket(tx, g) == \E k \in DOMAIN g : \E i \in DOMAIN g[k] : g[k][i] = tx

SinkUntouched == sink = PriorContent /\ sink_writes = 0

\* C1: once run() has grouped, the keys of the Grouped Result are exactly the
\* loaded identifiers: no key outside the set, every identifier a key, and an
\* identifier no transaction matched has the empty sequence.
C1_KeysAreTheIdentifierSet ==
    group_calls > 0 =>
        /\ DOMAIN grouped = team_ids
        /\ team_ids = {input_file.teams[i] : i \in DOMAIN input_file.teams}
        /\ \A k \in team_ids :
              (\A i \in DOMAIN transactions : ~MatchesKey(transactions[i], k))
                  => grouped[k] = <<>>

C1_Witness ==
    /\ group_calls = 1
    /\ \E k \in team_ids : grouped[k] = <<>>
    /\ \E i \in DOMAIN transactions :
          \E u \in UserIds \ team_ids : MatchesKey(transactions[i], u)

\* C2: a record is in a bucket only if its type is allowed and its user.id is
\* present and known; a record with another type, without user or user.id, or
\* with an unknown user.id is in no bucket, and the pass completes all the same.
C2_OnlyAllowedKnownRecordsAreBucketed ==
    \A p \in DOMAIN results :
        /\ DOMAIN results[p] = given.team_ids
        /\ \A i \in DOMAIN given.transactions :
              InSomeBucket(given.transactions[i], results[p])
                  => \E k \in given.team_ids : MatchesKey(given.transactions[i], k)

C2_Witness ==
    /\ Len(results) >= 1
    /\ \E i, j \in DOMAIN given.transactions :
          /\ given.transactions[i].type = Str("ignored")
          /\ given.transactions[i].user.id \in given.team_ids
          /\ ~InSomeBucket(given.transactions[i], results[1])
          /\ InSomeBucket(given.transactions[j], results[1])

\* C3: the bucket of every identifier k is the subsequence of the records
\* received (page order, then order within the page) that have an allowed type
\* and user.id = k: order and multiplicity kept, nothing lost.
C3_BucketIsTheMatchingSubsequence ==
    group_calls > 0 =>
        \A k \in team_ids :
            LET Match(tx) == MatchesKey(tx, k)
            IN  grouped[k] = SelectSeq(Flatten(pages), Match)

C3_Witness ==
    /\ group_calls = 1
    /\ Len(pages) >= 2
    /\ \E k \in team_ids : \E i, j \in DOMAIN grouped[k] :
          /\ i < j
          /\ grouped[k][i] = grouped[k][j]
          /\ \E m \in DOMAIN grouped[k] : grouped[k][m].content > grouped[k][j].content

\* C4: without a transport error the loop stops after a page exactly when the
\* page holds zero records or fewer than limit records, and the list returned
\* is as long as the pages fetched together.
LoopStoppedAfter(i) == i = Len(pages) /\ fetch_returned = "list"

C4_StopsExactlyOnShortPage ==
    /\ \A i \in DOMAIN pages :
          LoopStoppedAfter(i) <=> (Len(pages[i]) = 0 \/ Len(pages[i]) < limit)
    /\ fetch_returned = "list" => Len(transactions) = SumLen(pages)

C4_Witness ==
    /\ fetch_returned = "list"
    /\ Len(pages) = 2
    /\ Len(pages[1]) = limit
    /\ Len(pages[2]) = 0
    /\ Len(transactions) = limit

\* C5: a page request that fails is the last request of the run: the records
\* of the earlier pages are dropped, nothing is grouped and the sink is not written.
C5_TransportFailureAbortsTheRun ==
    \A k \in DOMAIN requests :
        requests[k].status # "ok" =>
            /\ k = Len(requests)
            /\ pc = "done"
            /\ fetch_returned \in {"None", "raised"}
            /\ all_transactions = <<>>
            /\ group_calls = 0
            /\ SinkUntouched

C5_Witness ==
    /\ Len(requests) = 2
    /\ requests[2].status = "network_error"
    /\ Len(pages) = 1
    /\ Len(pages[1]) = limit
    /\ pc = "done"

\* C6: with the input source missing or not of the expected structure the run
\* ends right after loading: no page request, no write on the sink.
C6_BadInputAbortsBeforeAnyRequest ==
    (input_file.kind \in {"missing", "invalid_json", "malformed", "empty_object"} /\ pc # "load") =>
        /\ pc = "done"
        /\ outcome \in {"aborted", "raised"}
        /\ requests = <<>>
        /\ SinkUntouched

C6_Witness ==
    /\ input_file.kind = "missing"
    /\ pc = "done"
    /\ outcome = "aborted"

\* C7: the sink is written if and only if the run succeeds: a run that fails,
\* the failure of the write itself included, leaves the sink as it was, and a
\* run that succeeds writes the complete Grouped Result once.
C7_SinkWrittenIffRunSucceeds ==
    pc = "done" =>
        /\ (outcome = "saved") <=> (sink_writes > 0)
        /\ outcome # "saved" => SinkUntouched
        /\ outcome = "saved" =>
              sink = [state |-> "complete", data |-> JsonDump(grouped)] /\ sink_writes = 1

\* C8: a second grouping pass over the same arguments returns what the first
\* returned, and a pass leaves the transaction list and the identifier set as given.
C8_GroupingIsRepeatable ==
    /\ \A p, q \in DOMAIN results : results[p] = results[q]
    /\ Len(results) >= 1 =>
          transactions = given.transactions /\ team_ids = given.team_ids

C8_Witness ==
    /\ Len(results) = 2
    /\ Len(given.transactions) = MaxTx
    /\ \E k \in DOMAIN results[1] : results[1][k] # <<>>
    /\ \E k \in DOMAIN results[2] : results[2][k] = <<>>

\* C9: the k-th request carries offset limit*(k-1) and limit; against a board
\* of N records served by offset slices, without failure, the loop ends after
\* floor(N/limit)+1 requests with exactly the board, in order; against a
\* remote whose every page is full the loop does not end.
C9_RequestsAndTermination ==
    /\ \A k \in DOMAIN requests :
          requests[k].offset = limit * (k - 1) /\ requests[k].limit = limit
    /\ (server.mode = "slices" /\ server.overlap = 0) =>
          /\ pc = "fetch" => Len(requests) <= Len(server.board) \div limit
          /\ fetch_returned = "list" =>
                /\ Len(requests) = (Len(server.board) \div limit) + 1
                /\ transactions = server.board
    /\ server.mode = "endless" => fetch_returned # "list"

C9_Witness ==
    /\ server.mode = "slices"
    /\ server.overlap = 0
    /\ Len(server.board) = limit
    /\ fetch_returned = "list"
    /\ Len(requests) = 2
    /\ pages[2] = <<>>
    /\ transactions = server.board

\* C10: a page request is issued only with a non-empty identifier set; an input
\* source holding an empty team list ends the run with no page request and no
\* write on the sink, as a missing source does.
C10_EmptyTeamListAbortsBeforeAnyRequest ==
    /\ requests # <<>> => team_ids # {}
    /\ (input_file.kind = "array" /\ input_file.teams = <<>> /\ pc # "load") =>
          /\ pc = "done"
          /\ outcome = "aborted"
          /\ requests = <<>>
          /\ SinkUntouched

C10_Witness ==
    /\ input_file.kind = "array"
    /\ input_file.teams = <<>>
    /\ pc = "done"
    /\ requests = <<>>

====
